---- MODULE Spec2Model ----
(***************************************************************************)
(* 2584 (Fibonacci 2048): the board of board.h and the TD player of        *)
(* agent.h.                                                                *)
(*                                                                         *)
(* A board is the tuple of its 16 cells, cell i (1-d form) at index i + 1. *)
(* A cell is a uint32_t.  It is held here as the pair <<hi, lo>> of its    *)
(* 16-bit halves, so that every 32-bit pattern (0xFFFFFFFF included) is a  *)
(* value of the model; ToInt and ToCell are the conversions between a cell *)
(* and an int that the code performs at every read and write of a cell.    *)
(* A float holds an integer here: alpha, the rewards and the targets are   *)
(* integers, and every sum, difference and product of the code is rounded  *)
(* to the 24-bit significand of a float (Fl), so the weights are integers  *)
(* too.  NaN and infinite weights are outside the model.                   *)
(***************************************************************************)
EXTENDS Integers, Sequences, FiniteSets, TLC

VARIABLES
    tile,      \* board::tile, the 16 cells of the board in play
    prev,      \* the cells before the last board operation
    call,      \* the last call made: its name, arguments and return value
    net,       \* player::net, the weight tables (slots holding 0 are left out)
    alpha,     \* player::alpha
    history,   \* player::history, the steps of the episode
    old,       \* net and history before the last player operation
    calls      \* number of calls made so far

vars == <<tile, prev, call, net, alpha, history, old, calls>>

----------------------------------------------------------------------------
(* Bounds of the model *)

\* calls made in one run of the board specifications
MaxMoves == 4

\* calls made in one run of the player specifications
MaxCalls == 4

\* the environment places its tile on one of the cells 0 .. MaxEnvPos
MaxEnvPos == 1

----------------------------------------------------------------------------
(* board.h *)

\* 2^16, the radix of the two halves of a cell
Half == 2 ^ 16

\* int -> uint32_t (a store into a cell): the value modulo 2^32
ToCell(i) == << (i \div Half) % Half, i % Half >>

\* uint32_t -> int (`int tile = row[c]`, `(int)after(a)`): two's complement
ToInt(c) == IF c[1] >= Half \div 2 THEN (c[1] - Half) * Half + c[2]
                                   ELSE c[1] * Half + c[2]

Pos == 0 .. 15

\* cell& operator ()(unsigned i)
At(b, i) == b[i + 1]

\* operator()(i) = c
Put(b, i, c) == [b EXCEPT ![i + 1] = c]

\* board(): every cell 0
EmptyBoard == [i \in 1 .. 16 |-> ToCell(0)]

fib == << 0, 1, 2, 3, 5, 8, 13, 21, 34, 55, 89, 144, 233,
          377, 610, 987, 1597, 2584, 4181, 6765, 10946, 17711, 28657,
          46368, 75025, 121393, 196418, 317811, 514229, 832040, 1346269,
          2178309, 3524578 >>

\* fib[i] of the 33-entry array.  An i outside 0..32 reads past the array;
\* TLC stops with an error if an evaluation ever asks for one.
fibonacci(i) == fib[i + 1]

\* index of i in the array, -1 if i is not in it
r_fibonacci(i) ==
    IF \E j \in 0 .. 32 : fib[j + 1] = i
    THEN CHOOSE j \in 0 .. 32 : fib[j + 1] = i /\ \A k \in 0 .. j - 1 : fib[k + 1] # i
    ELSE -1

\* F(x) for x the value of e: a local variable initialised with e.  The body
\* F sees the value of e, computed once, however often it reads x.
Bind(e, F(_)) == CHOOSE y \in {F(x) : x \in {e}} : TRUE

Abs(x) == IF x < 0 THEN -x ELSE x
Max(x, y) == IF x < y THEN y ELSE x
Min(x, y) == IF x < y THEN x ELSE y

\* CanMerge without the case of two 1-tiles
CanMergeNoOnes(t, hold) == Abs(t - hold) = 1

\* std::abs(tile - hold) == 1 || (tile == 1 && hold == 1)
CanMerge(t, hold) == Abs(t - hold) = 1 \/ (t = 1 /\ hold = 1)

\* One iteration of the column loop of slide_left on row r.
\* s = [b: the board, top, hold, score]
SlideStep(s, r, c) ==
    LET t  == ToInt(At(s.b, 4 * r + c))
        b0 == Put(s.b, 4 * r + c, ToCell(0))
    IN  IF t = 0 THEN s
        ELSE IF s.hold # 0
        THEN IF CanMerge(t, s.hold)
             THEN [b     |-> Put(b0, 4 * r + s.top, ToCell(Max(t, s.hold) + 1)),
                   top   |-> s.top + 1,
                   hold  |-> 0,
                   score |-> s.score + fibonacci(Max(t, s.hold) + 1)]
             ELSE [b     |-> Put(b0, 4 * r + s.top, ToCell(s.hold)),
                   top   |-> s.top + 1,
                   hold  |-> t,
                   score |-> s.score]
        ELSE [b |-> b0, top |-> s.top, hold |-> t, score |-> s.score]

RECURSIVE SlideCols(_, _, _)
SlideCols(s, r, c) ==
    IF c = 4 THEN s
    ELSE Bind(SlideStep(s, r, c), LAMBDA n : SlideCols(n, r, c + 1))

\* The body of the row loop: top = 0, hold = 0, the column loop, then
\* `if (hold) tile[r][top] = hold`.
SlideRow(b, score, r) ==
    Bind(SlideCols([b |-> b, top |-> 0, hold |-> 0, score |-> score], r, 0),
         LAMBDA s :
             [b     |-> IF s.hold # 0 THEN Put(s.b, 4 * r + s.top, ToCell(s.hold))
                                      ELSE s.b,
              score |-> s.score])

RECURSIVE SlideRows(_, _, _)
SlideRows(b, score, r) ==
    IF r = 4 THEN [b |-> b, score |-> score]
    ELSE Bind(SlideRow(b, score, r), LAMBDA s : SlideRows(s.b, s.score, r + 1))

\* slide_left that returns the score of a slide that changes nothing too
slide_left_score(b) ==
    Bind(SlideRows(b, 0, 0), LAMBDA s : [b |-> s.b, ret |-> s.score])

\* reward slide_left(): [b: the board after, ret: the value returned]
slide_left(b) ==
    Bind(SlideRows(b, 0, 0),
         LAMBDA s : [b |-> s.b, ret |-> IF s.b # b THEN s.score ELSE -1])

\* swap tile[r][c] and tile[c][r]
transpose(b) ==
    << b[1], b[5], b[9],  b[13],
       b[2], b[6], b[10], b[14],
       b[3], b[7], b[11], b[15],
       b[4], b[8], b[12], b[16] >>

\* swap tile[r][0] and tile[r][3], tile[r][1] and tile[r][2]
reflect_horizontal(b) ==
    << b[4],  b[3],  b[2],  b[1],
       b[8],  b[7],  b[6],  b[5],
       b[12], b[11], b[10], b[9],
       b[16], b[15], b[14], b[13] >>

\* swap tile[0][c] and tile[3][c], tile[1][c] and tile[2][c]
reflect_vertical(b) ==
    << b[13], b[14], b[15], b[16],
       b[9],  b[10], b[11], b[12],
       b[5],  b[6],  b[7],  b[8],
       b[1],  b[2],  b[3],  b[4] >>

\* transpose(); reflect_horizontal();
rotate_right(b) == Bind(transpose(b), reflect_horizontal)

\* transpose(); reflect_vertical();
rotate_left(b) == Bind(transpose(b), reflect_vertical)

\* reflect_horizontal(); slide_left(); reflect_horizontal();
slide_right(b) ==
    Bind(reflect_horizontal(b), LAMBDA t :
    Bind(slide_left(t), LAMBDA s :
         [b |-> reflect_horizontal(s.b), ret |-> s.ret]))

\* rotate_right(); slide_right(); rotate_left();
slide_up(b) ==
    Bind(rotate_right(b), LAMBDA t :
    Bind(slide_right(t), LAMBDA s :
         [b |-> rotate_left(s.b), ret |-> s.ret]))

\* rotate_right(); slide_left(); rotate_left();
slide_down(b) ==
    Bind(rotate_right(b), LAMBDA t :
    Bind(slide_left(t), LAMBDA s :
         [b |-> rotate_left(s.b), ret |-> s.ret]))

\* reward slide(unsigned opcode)
slide(b, opcode) ==
    CASE opcode % 4 = 0 -> slide_up(b)
      [] opcode % 4 = 1 -> slide_right(b)
      [] opcode % 4 = 2 -> slide_down(b)
      [] opcode % 4 = 3 -> slide_left(b)

\* reward place(unsigned pos, cell tile); t is the tile as an int
place(b, pos, t) ==
    IF pos >= 16 THEN [b |-> b, ret |-> -1]
    ELSE IF t # 1 /\ t # 2 THEN [b |-> b, ret |-> -1]
    ELSE [b |-> Put(b, pos, ToCell(t)), ret |-> 0]

----------------------------------------------------------------------------
(* agent.h: class player *)

MAX_INDEX == 24

\* stands for std::numeric_limits<float>::max(): a float above every sum the
\* weights and rewards of the model reach
FLT_MAX == 2 ^ 30

\* bits of the significand of a float
Mantissa == 24

\* the float nearest to the integer v, ties to the even significand
Round(v) ==
    LET m == Abs(v)
        u == CHOOSE w \in {2 ^ k : k \in 0 .. 31 - Mantissa} :
                 /\ m \div w < 2 ^ Mantissa
                 /\ (w = 1 \/ m \div w >= 2 ^ (Mantissa - 1))
        q == m \div u
        r == m % u
        n == IF 2 * r > u \/ (2 * r = u /\ q % 2 = 1) THEN q + 1 ELSE q
    IN  IF v < 0 THEN -(n * u) ELSE n * u

\* the float a float operation returns, x its exact result
Fl(x) == Bind(x, Round)

\* init_weights: net[0], net[1] hold MAX_INDEX^6 floats, net[2], net[3] MAX_INDEX^4
TableSize(k) == IF k < 2 THEN MAX_INDEX ^ 6 ELSE MAX_INDEX ^ 4

\* whether net[slot[1]][slot[2]] is an element of the table
InTable(slot) == 0 <= slot[2] /\ slot[2] < TableSize(slot[1])

\* init_weights: four tables of zeros.  The tables are held as the set of
\* the pairs <<slot, weight>> of the slots whose weight is not 0.
ZeroNet == {}

\* net[k][idx] read; g is what a read outside the table finds
Weight(n, slot, g) ==
    IF ~InTable(slot) THEN g
    ELSE IF \E p \in n : p[1] = slot THEN (CHOOSE p \in n : p[1] = slot)[2]
    ELSE 0

\* the tables with net[k][idx] = v
Store(n, slot, v) ==
    {p \in n : p[1] # slot} \cup (IF v = 0 THEN {} ELSE {<<slot, v>>})

\* net[k][idx] += d; a write outside the table leaves the tables as they are
AddWeight(n, slot, d) ==
    IF ~InTable(slot) THEN n ELSE Store(n, slot, Fl(Weight(n, slot, 0) + d))

\* std::min((int)after(p), MAX_INDEX - 1)
Clamp(after, p) == Min(ToInt(At(after, p)), MAX_INDEX - 1)

extract_index4(after, a, b, c, d) ==
      MAX_INDEX * MAX_INDEX * MAX_INDEX * Clamp(after, a)
    + MAX_INDEX * MAX_INDEX * Clamp(after, b)
    + MAX_INDEX * Clamp(after, c)
    + Clamp(after, d)

extract_index6(after, a, b, c, d, e, f) ==
      MAX_INDEX * MAX_INDEX * MAX_INDEX * MAX_INDEX * MAX_INDEX * Clamp(after, a)
    + MAX_INDEX * MAX_INDEX * MAX_INDEX * MAX_INDEX * Clamp(after, b)
    + MAX_INDEX * MAX_INDEX * MAX_INDEX * Clamp(after, c)
    + MAX_INDEX * MAX_INDEX * Clamp(after, d)
    + MAX_INDEX * Clamp(after, e)
    + Clamp(after, f)

\* the first switch of the loop over i in {0, 1, 2, 3}
Turn(tmp, i) ==
    CASE i = 0 -> tmp
      [] i = 1 -> Bind(rotate_left(tmp), rotate_left)
      [] i = 2 -> rotate_left(tmp)
      [] i = 3 -> rotate_right(tmp)

\* the second switch with one rotate_right for the case 1
TurnBackOnce(tmp, i) ==
    CASE i = 0 -> tmp
      [] i = 1 -> rotate_right(tmp)
      [] i = 2 -> rotate_right(tmp)
      [] i = 3 -> rotate_left(tmp)

\* the second switch of the loop
TurnBack(tmp, i) ==
    CASE i = 0 -> tmp
      [] i = 1 -> Bind(rotate_right(tmp), rotate_right)
      [] i = 2 -> rotate_right(tmp)
      [] i = 3 -> rotate_left(tmp)

\* the four table slots one iteration touches, in the order of the code
Slots(tmp) ==
    << <<0, extract_index6(tmp, 0, 1, 4, 5, 8, 9)>>,
       <<1, extract_index6(tmp, 1, 2, 5, 6, 9, 10)>>,
       <<2, extract_index4(tmp, 2, 6, 10, 14)>>,
       <<3, extract_index4(tmp, 3, 7, 11, 15)>> >>

\* value += net[0][..]; value += net[1][..]; value += net[2][..]; value += net[3][..]
AddUp(n, value, s, g) ==
    Fl(Fl(Fl(Fl(value + Weight(n, s[1], g)) + Weight(n, s[2], g))
          + Weight(n, s[3], g)) + Weight(n, s[4], g))

\* one iteration of the loop of estimate_value
EstimateStep(n, tmp, value, i, g) ==
    Bind(Turn(tmp, i),
         LAMBDA t : [value |-> Bind(Slots(t), LAMBDA s : AddUp(n, value, s, g)),
                     tmp   |-> TurnBack(t, i)])

\* the loop of estimate_value from iteration i on: [value, tmp] when it ends
RECURSIVE EstimateLoop(_, _, _, _, _)
EstimateLoop(n, tmp, value, i, g) ==
    IF i = 4 THEN [value |-> value, tmp |-> tmp]
    ELSE Bind(EstimateStep(n, tmp, value, i, g),
              LAMBDA s : EstimateLoop(n, s.tmp, s.value, i + 1, g))

\* float estimate_value(const board& after)
estimate_value(n, after, g) == EstimateLoop(n, after, 0, 0, g).value

\* the table slots the loop (of estimate_value, of adjust_value) touches from
\* iteration i on, in order, added to q
RECURSIVE TouchLoop(_, _, _)
TouchLoop(tmp, q, i) ==
    IF i = 4 THEN q
    ELSE Bind(Turn(tmp, i),
              LAMBDA t : Bind([q |-> q \o Slots(t), tmp |-> TurnBack(t, i)],
                              LAMBDA s : TouchLoop(s.tmp, s.q, i + 1)))

Touched(after) == TouchLoop(after, <<>>, 0)

\* the four writes without the last
AddToThree(n, s, adjust) ==
    Bind(AddWeight(n, s[1], adjust), LAMBDA n1 :
    Bind(AddWeight(n1, s[2], adjust), LAMBDA n2 :
         AddWeight(n2, s[3], adjust)))

\* net[0][..] += adjust; net[1][..] += adjust; net[2][..] += adjust;
\* net[3][..] += adjust
AddTo(n, s, adjust) ==
    Bind(AddWeight(n, s[1], adjust), LAMBDA n1 :
    Bind(AddWeight(n1, s[2], adjust), LAMBDA n2 :
    Bind(AddWeight(n2, s[3], adjust), LAMBDA n3 :
         AddWeight(n3, s[4], adjust))))

\* one iteration of the loop of adjust_value
AdjustStep(n, tmp, adjust, i) ==
    Bind(Turn(tmp, i),
         LAMBDA t : [net |-> Bind(Slots(t), LAMBDA s : AddTo(n, s, adjust)),
                     tmp |-> TurnBack(t, i)])

\* the loop of adjust_value from iteration i on: [net, tmp] when it ends
RECURSIVE AdjustLoop(_, _, _, _)
AdjustLoop(n, tmp, adjust, i) ==
    IF i = 4 THEN [net |-> n, tmp |-> tmp]
    ELSE Bind(AdjustStep(n, tmp, adjust, i),
              LAMBDA s : AdjustLoop(s.net, s.tmp, adjust, i + 1))

\* adjust_value with error = current - target
adjust_value_sign(n, a, after, target, g) ==
    Bind(estimate_value(n, after, g), LAMBDA current :
    Bind(Fl(current - target), LAMBDA error :
    Bind(Fl(a * error), LAMBDA adjust : AdjustLoop(n, after, adjust, 0).net)))

\* void adjust_value(const board& after, float target): the tables after it
adjust_value(n, a, after, target, g) ==
    Bind(estimate_value(n, after, g), LAMBDA current :
    Bind(Fl(target - current), LAMBDA error :
    Bind(Fl(a * error), LAMBDA adjust : AdjustLoop(n, after, adjust, 0).net)))

\* the body of the loop of take_action with > for >=
TryOpStrict(n, before, s, op, g) ==
    Bind(slide(before, op),
         LAMBDA r :
             IF r.ret = -1 THEN s
             ELSE Bind(estimate_value(n, r.b, g),
                       LAMBDA value :
                           IF Fl(value + r.ret) > Fl(s.value + s.reward)
                           THEN [op |-> op, reward |-> r.ret,
                                 value |-> value, after |-> r.b]
                           ELSE s))

\* the body of the loop of take_action for one op; s = [op, reward, value, after]
TryOp(n, before, s, op, g) ==
    Bind(slide(before, op),
         LAMBDA r :
             IF r.ret = -1 THEN s
             ELSE Bind(estimate_value(n, r.b, g),
                       LAMBDA value :
                           IF Fl(value + r.ret) >= Fl(s.value + s.reward)
                           THEN [op |-> op, reward |-> r.ret,
                                 value |-> value, after |-> r.b]
                           ELSE s))

RECURSIVE TryOps(_, _, _, _, _)
TryOps(n, before, s, op, g) ==
    IF op = 4 THEN s
    ELSE Bind(TryOp(n, before, s, op, g), LAMBDA b : TryOps(n, before, b, op + 1, g))

\* take_action with the push_back outside its if
take_action_push(n, h, before, g) ==
    Bind(TryOps(n, before,
                [op |-> -1, reward |-> -1, value |-> -FLT_MAX, after |-> EmptyBoard],
                0, g),
         LAMBDA best :
             [op      |-> best.op,
              after   |-> best.after,
              history |-> Append(h, [reward |-> best.reward, after |-> best.after])])

\* action take_action(const board& before): [op: the op emitted (-1: none),
\* history: the history after the call, after: best_after]
take_action(n, h, before, g) ==
    Bind(TryOps(n, before,
                [op |-> -1, reward |-> -1, value |-> -FLT_MAX, after |-> EmptyBoard],
                0, g),
         LAMBDA best :
             [op      |-> best.op,
              after   |-> best.after,
              history |-> IF best.op # -1
                          THEN Append(h, [reward |-> best.reward, after |-> best.after])
                          ELSE h])

\* the loop of close_episode, i as in the code (history[i] is h[i + 1] here)
RECURSIVE CloseLoop(_, _, _, _, _)
CloseLoop(n, a, h, i, g) ==
    IF i < 0 THEN n
    ELSE Bind(Fl(h[i + 1].reward + estimate_value(n, h[i + 2].after, g)),
              LAMBDA target :
                  Bind(adjust_value(n, a, h[i + 1].after, target, g),
                       LAMBDA m : CloseLoop(m, a, h, i - 1, g)))

\* void close_episode(flag): the tables after it
close_episode(n, a, h, g) ==
    IF h = <<>> THEN n
    ELSE IF a = 0 THEN n
    ELSE Bind(adjust_value(n, a, h[Len(h)].after, 0, g),
              LAMBDA m : CloseLoop(m, a, h, Len(h) - 2, g))

----------------------------------------------------------------------------
(* Calls on a board: slide and place *)

NoCall == [op |-> "none", x |-> 0, y |-> 0, ret |-> 0, tmp |-> <<>>]

\* the board whose cells hold the 16 indices of q
BoardOf(q) == [i \in 1 .. 16 |-> ToCell(q[i])]

\* the board with row r = [a, 0, 0, b] and every other cell empty
RowBoard(r, a, b) == Put(Put(EmptyBoard, 4 * r, ToCell(a)), 4 * r + 3, ToCell(b))

\* the board with row r = [a, b, 0, 0] and every other cell empty
RowPacked(r, a, b) == Put(Put(EmptyBoard, 4 * r, ToCell(a)), 4 * r + 1, ToCell(b))

\* cell indices of the data model
Indices == 1 .. MAX_INDEX - 1

\* sixteen place(pos, 2) calls on the empty board
FullOfTwos == [i \in 1 .. 16 |-> ToCell(2)]

\* Reached from the empty board by 92734 legal calls, each a place on an
\* empty cell or a slide: build(k) = build(k-1); build(k-2), where build(1)
\* and build(2) place the tile on the next free cell of the path
\* 0,1,2,3,7,6,5,4,8,... and the two last tiles of the path are merged by a
\* slide as soon as they can merge; build(24) passes through this board one
\* slide before it ends.
LateBoard == RowPacked(0, 23, 22)

\* sixteen place(pos, 1) calls on the empty board
FullOfOnes == [i \in 1 .. 16 |-> ToCell(1)]

GameBoards == {EmptyBoard, FullOfOnes, FullOfTwos, LateBoard}

\* positions handed to place: three cells of the board and one past its end
PlaceCells == {0, 5, 10, 16}

PlayerIdle ==
    /\ net = ZeroNet
    /\ alpha = 0
    /\ history = <<>>
    /\ old = [net |-> ZeroNet, history |-> <<>>]

\* board::slide(opcode) on the board in play
Slide(d) ==
    /\ calls < MaxMoves
    /\ \E r \in {slide(tile, d)} :
           /\ tile' = r.b
           /\ call' = [op |-> "slide", x |-> d, y |-> 0, ret |-> r.ret, tmp |-> <<>>]
    /\ prev' = tile
    /\ calls' = calls + 1
    /\ UNCHANGED <<net, alpha, history, old>>

\* board::place(pos, tile) on the board in play
Place(pos, t) ==
    /\ calls < MaxMoves
    /\ \E r \in {place(tile, pos, t)} :
           /\ tile' = r.b
           /\ call' = [op |-> "place", x |-> pos, y |-> t, ret |-> r.ret, tmp |-> <<>>]
    /\ prev' = tile
    /\ calls' = calls + 1
    /\ UNCHANGED <<net, alpha, history, old>>

RowInit ==
    /\ \E r \in 0 .. 3, a \in Indices, b \in Indices : tile = RowBoard(r, a, b)
    /\ prev = tile
    /\ call = NoCall
    /\ calls = 0
    /\ PlayerIdle

RowNext == Slide(3)

SpecRow == RowInit /\ [][RowNext]_vars

GameInit ==
    /\ tile \in GameBoards
    /\ prev = tile
    /\ call = NoCall
    /\ calls = 0
    /\ PlayerIdle

GameNext ==
    \/ \E d \in 0 .. 3 : Slide(d)
    \/ \E pos \in PlaceCells, t \in 0 .. 3 : Place(pos, t)

SpecGame == GameInit /\ [][GameNext]_vars

----------------------------------------------------------------------------
(* C1 *)

ClaimMerges(a, b) == Abs(a - b) = 1 \/ (a = 1 /\ b = 1)

\* whether row r of board b is [x,0,0,y] with x, y cell indices, the rest empty
IsRowBoard(b, r) ==
    /\ ToInt(At(b, 4 * r)) \in Indices
    /\ ToInt(At(b, 4 * r + 3)) \in Indices
    /\ b = RowBoard(r, ToInt(At(b, 4 * r)), ToInt(At(b, 4 * r + 3)))

\* C1 as stated: a slide left of the row [a,0,0,b] gives [a+1,0,0,0] and
\* reward fib(a+1) if |a-b| = 1 or a = b = 1, and [a,b,0,0] and reward 0 if not.
C1_AsStated ==
    \A r \in 0 .. 3 :
        (call.op = "slide" /\ call.x = 3 /\ IsRowBoard(prev, r)) =>
            LET a == ToInt(At(prev, 4 * r))
                b == ToInt(At(prev, 4 * r + 3))
            IN  IF ClaimMerges(a, b)
                THEN tile = RowPacked(r, a + 1, 0) /\ call.ret = fib[a + 2]
                ELSE tile = RowPacked(r, a, b) /\ call.ret = 0

\* C1 amended: the merged index is max(a,b)+1 and the reward fib(max(a,b)+1).
C1_MergeRule ==
    \A r \in 0 .. 3 :
        (call.op = "slide" /\ call.x = 3 /\ IsRowBoard(prev, r)) =>
            LET a == ToInt(At(prev, 4 * r))
                b == ToInt(At(prev, 4 * r + 3))
                m == IF a < b THEN b ELSE a
            IN  IF ClaimMerges(a, b)
                THEN tile = RowPacked(r, m + 1, 0) /\ call.ret = fib[m + 2]
                ELSE tile = RowPacked(r, a, b) /\ call.ret = 0

\* a row [a,0,0,a+1] has been slid left and holds a+2
C1_Witness ==
    \E r \in 0 .. 3 :
        /\ call.op = "slide" /\ call.x = 3
        /\ IsRowBoard(prev, r)
        /\ ToInt(At(prev, 4 * r + 3)) = ToInt(At(prev, 4 * r)) + 1
        /\ tile = RowPacked(r, ToInt(At(prev, 4 * r)) + 2, 0)

----------------------------------------------------------------------------
(* C2 *)

\* the four cells of line k in the order in which a slide to d meets them
Line(b, d, k) ==
    CASE d = 3 -> [j \in 1 .. 4 |-> ToInt(At(b, 4 * k + (j - 1)))]
      [] d = 1 -> [j \in 1 .. 4 |-> ToInt(At(b, 4 * k + (4 - j)))]
      [] d = 0 -> [j \in 1 .. 4 |-> ToInt(At(b, 4 * (j - 1) + k))]
      [] d = 2 -> [j \in 1 .. 4 |-> ToInt(At(b, 4 * (4 - j) + k))]

NonZero(x) == x # 0

\* sum of fib(merged index) over the merges of the tiles q, front first
RECURSIVE MergeReward(_)
MergeReward(q) ==
    IF Len(q) < 2 THEN 0
    ELSE IF ClaimMerges(q[1], q[2])
    THEN fib[(IF q[1] < q[2] THEN q[2] ELSE q[1]) + 2] + MergeReward(Tail(Tail(q)))
    ELSE MergeReward(Tail(q))

BoardReward(b, d) ==
    MergeReward(SelectSeq(Line(b, d, 0), NonZero))
    + MergeReward(SelectSeq(Line(b, d, 1), NonZero))
    + MergeReward(SelectSeq(Line(b, d, 2), NonZero))
    + MergeReward(SelectSeq(Line(b, d, 3), NonZero))

\* C2: slide(d) returns -1 exactly when it leaves the cells as they were; when
\* it changes them it returns the sum of fib(merged index) over the merges,
\* which is not negative.
C2_SlideIllegal ==
    call.op = "slide" =>
        /\ (call.ret = -1) <=> (tile = prev)
        /\ tile # prev => call.ret >= 0 /\ call.ret = BoardReward(prev, call.x)

\* a slide has returned -1 on a board that holds tiles and empty cells
C2_Witness ==
    /\ call.op = "slide" /\ call.ret = -1
    /\ \E i \in Pos : ToInt(At(tile, i)) # 0
    /\ \E i \in Pos : ToInt(At(tile, i)) = 0

----------------------------------------------------------------------------
(* C3 *)

\* C3: every cell holds a value in [0, MAX_INDEX)
C3_CellDomain ==
    \A i \in Pos : At(tile, i)[1] = 0 /\ At(tile, i)[2] < MAX_INDEX

----------------------------------------------------------------------------
(* Calls on a player *)

\* weights a call that changes the tables starts from: up to this magnitude
MaxWeight == 100

\* steps a trajectory holds
MaxSteps == 3

\* what a read outside a table may find
Garbage == {-1, 1}

\* values of alpha the player is built with
Alphas == {0, 1}

\* targets handed to adjust_value
Targets == {0, 5}

\* boards handed to the player, each made of place calls on the empty board
PairBoard   == BoardOf(<<1,1,0,0, 0,0,0,0, 0,0,0,0, 0,0,0,0>>)
ChainBoard  == BoardOf(<<1,1,2,0, 0,0,0,0, 0,0,0,0, 0,0,0,0>>)
SpreadBoard == BoardOf(<<0,0,0,1, 0,0,0,0, 0,2,0,0, 0,0,1,0>>)

AgentBoards == {PairBoard, ChainBoard, SpreadBoard, FullOfTwos}

\* load_weights of a file that holds 2^24 in the first slot estimate_value
\* reads on SpreadBoard, 1 in the fifth and the sixth, 0 everywhere else
LoadedNet ==
    { <<Touched(SpreadBoard)[1], 2 ^ Mantissa>>,
      <<Touched(SpreadBoard)[5], 1>>,
      <<Touched(SpreadBoard)[6], 1>> }

\* the tables a player is built with: init, or init and load
Banks == {ZeroNet, LoadedNet}

Snapshot == [net |-> net, history |-> history]

Bounded(n) == \A p \in n : Abs(p[2]) <= MaxWeight

\* the process has not been ended
Alive == call.op # "fault"

\* whether some table slot the loops touch on board b is outside its table
Outside(b) == \E i \in 1 .. 16 : ~InTable(Touched(b)[i])

\* player::open_episode, called by the driver as it starts a game on board b
OpenEpisode(b) ==
    /\ Alive
    /\ calls < MaxCalls
    /\ history' = <<>>
    /\ tile' = b
    /\ prev' = tile
    /\ call' = [op |-> "open_episode", x |-> 0, y |-> 0, ret |-> 0, tmp |-> <<>>]
    /\ old' = Snapshot
    /\ calls' = calls + 1
    /\ UNCHANGED <<net, alpha>>

\* player::take_action(tile); the driver applies the slide emitted to its board
TakeAction(g) ==
    /\ Alive
    /\ calls < MaxCalls
    /\ Len(history) < MaxSteps
    /\ \E r \in {take_action(net, history, tile, g)} :
           /\ history' = r.history
           /\ tile' = IF r.op # -1 THEN r.after ELSE tile
           /\ call' = [op |-> "take_action", x |-> 0, y |-> 0, ret |-> r.op, tmp |-> <<>>]
    /\ prev' = tile
    /\ old' = Snapshot
    /\ calls' = calls + 1
    /\ UNCHANGED <<net, alpha>>

\* rndenv::take_action picks an empty cell and a tile; the driver places it
EnvPlace(pos, t) ==
    /\ Alive
    /\ calls < MaxCalls
    /\ ToInt(At(tile, pos)) = 0
    /\ \E r \in {place(tile, pos, t)} :
           /\ tile' = r.b
           /\ call' = [op |-> "place", x |-> pos, y |-> t, ret |-> r.ret, tmp |-> <<>>]
    /\ prev' = tile
    /\ old' = Snapshot
    /\ calls' = calls + 1
    /\ UNCHANGED <<net, alpha, history>>

\* player::close_episode
CloseEpisode(g) ==
    /\ Alive
    /\ calls < MaxCalls
    /\ Bounded(net)
    /\ net' = close_episode(net, alpha, history, g)
    /\ call' = [op |-> "close_episode", x |-> 0, y |-> 0, ret |-> 0, tmp |-> <<>>]
    /\ prev' = tile
    /\ old' = Snapshot
    /\ calls' = calls + 1
    /\ UNCHANGED <<tile, alpha, history>>

\* player::adjust_value(tile, target)
AdjustValue(target, g) ==
    /\ Alive
    /\ calls < MaxCalls
    /\ Bounded(net)
    /\ net' = adjust_value(net, alpha, tile, target, g)
    /\ call' = [op |-> "adjust_value", x |-> target, y |-> 0, ret |-> 0, tmp |-> <<>>]
    /\ prev' = tile
    /\ old' = Snapshot
    /\ calls' = calls + 1
    /\ UNCHANGED <<tile, alpha, history>>

\* player::estimate_value(tile): ret is the value returned, tmp the working
\* copy as the loop leaves it
EstimateValue(g) ==
    /\ Alive
    /\ calls < MaxCalls
    /\ \E r \in {EstimateLoop(net, tile, 0, 0, g)} :
           call' = [op |-> "estimate_value", x |-> 0, y |-> 0, ret |-> r.value, tmp |-> r.tmp]
    /\ prev' = tile
    /\ old' = Snapshot
    /\ calls' = calls + 1
    /\ UNCHANGED <<tile, net, alpha, history>>

AgentInit ==
    /\ tile \in AgentBoards
    /\ prev = tile
    /\ call = NoCall
    /\ net \in Banks
    /\ alpha \in Alphas
    /\ history = <<>>
    /\ old = [net |-> net, history |-> <<>>]
    /\ calls = 0

\* No cell of these boards reaches MAX_INDEX, so no read is outside a table
\* and what such a read would find plays no part.
AgentNext ==
    \/ \E b \in AgentBoards : OpenEpisode(b)
    \/ TakeAction(0)
    \/ \E pos \in 0 .. MaxEnvPos, t \in {1, 2} : EnvPlace(pos, t)
    \/ CloseEpisode(0)
    \/ \E target \in Targets : AdjustValue(target, 0)
    \/ EstimateValue(0)

SpecAgent == AgentInit /\ [][AgentNext]_vars

----------------------------------------------------------------------------
(* Calls on a player whose board was read from text *)

\* numbers a board text holds
Faces == {0, 4, 75025}

\* cells of the text that hold another number than the rest
OddCells == {0, 15}

\* istream >> board: b(i) = r_fibonacci(b(i)) for the 16 numbers of text
ReadCells(text) == [i \in 1 .. 16 |-> ToCell(r_fibonacci(text[i]))]

\* in >> board, the text holding the number e at cell p and f elsewhere
ReadBoard(p, f, e) ==
    /\ Alive
    /\ calls < MaxCalls
    /\ tile' = ReadCells([i \in 1 .. 16 |-> IF i = p + 1 THEN e ELSE f])
    /\ prev' = tile
    /\ call' = [op |-> "read", x |-> p, y |-> e, ret |-> 0, tmp |-> <<>>]
    /\ old' = Snapshot
    /\ calls' = calls + 1
    /\ UNCHANGED <<net, alpha, history>>

\* an access outside a table that the system answers by ending the process
Fault ==
    /\ Alive
    /\ calls < MaxCalls
    /\ Outside(tile)
    /\ call' = [op |-> "fault", x |-> 0, y |-> 0, ret |-> 0, tmp |-> <<>>]
    /\ prev' = tile
    /\ old' = Snapshot
    /\ calls' = calls + 1
    /\ UNCHANGED <<tile, net, alpha, history>>

CorruptInit ==
    /\ tile = EmptyBoard
    /\ prev = tile
    /\ call = NoCall
    /\ net = ZeroNet
    /\ alpha \in Alphas
    /\ history = <<>>
    /\ old = [net |-> ZeroNet, history |-> <<>>]
    /\ calls = 0

CorruptNext ==
    \/ \E p \in OddCells, f \in Faces, e \in Faces : ReadBoard(p, f, e)
    \/ \E g \in Garbage : EstimateValue(g)
    \/ \E target \in Targets, g \in Garbage : AdjustValue(target, g)
    \/ Fault

SpecCorrupt == CorruptInit /\ [][CorruptNext]_vars

----------------------------------------------------------------------------
(* C4 *)

\* the directions whose slide changes board b
Legal(b) == {d \in 0 .. 3 : slide(b, d).ret # -1}

\* the step a slide of board b to d makes
StepOf(b, d) == [reward |-> slide(b, d).ret, after |-> slide(b, d).b]

----------------------------------------------------------------------------
(* C5 *)

\* 180 degrees: rotate_left applied twice
Rot180(b) == Bind(rotate_left(b), rotate_left)

\* value(b) on the tables n
Value(n, b) == estimate_value(n, b, 0)

\* number of pairs of reads of estimate_value(b) that read the same slot: 16
\* when the 16 slots are pairwise distinct
SlotPairs(b) ==
    Bind(Touched(b),
         LAMBDA q : Cardinality({ij \in (1 .. 16) \X (1 .. 16) : q[ij[1]] = q[ij[2]]}))

\* the 16 slots read on b are pairwise distinct
DistinctSlots(b) == SlotPairs(b) = 16

SingleStepClose == call.op = "close_episode" /\ alpha = 1 /\ Len(history) = 1

\* C5 as stated: with alpha = 1 and a trajectory of one step (r, s),
\* value(s) is 0 after close_episode.
C5_AsStated == SingleStepClose => Value(net, history[1].after) = 0

\* C5 amended: with alpha = 1 and a trajectory of one step (r, s), value(s)
\* after close_episode is (1 - K) times value(s) before it, K the number of
\* pairs of reads of the same slot (at least 16); it is 0 when the value
\* before was 0.
C5_TerminalUpdate ==
    SingleStepClose =>
        Value(net, history[1].after)
            = (1 - SlotPairs(history[1].after)) * Value(old.net, history[1].after)

\* a single-step trajectory has been closed whose after-state had a value
\* other than 0, and has one now
C5_Witness ==
    /\ SingleStepClose
    /\ Value(old.net, history[1].after) # 0
    /\ Value(net, history[1].after) # 0

----------------------------------------------------------------------------
(* C6 *)

\* value + reward of the slide of b to d, as take_action compares it
Composite(n, b, d) == Fl(Value(n, slide(b, d).b) + slide(b, d).ret)

\* the legal directions of b whose composite is maximal
Best(n, b) ==
    Bind({<<d, Composite(n, b, d)>> : d \in Legal(b)},
         LAMBDA K : {k[1] : k \in {x \in K : \A y \in K : x[2] >= y[2]}})

----------------------------------------------------------------------------
(* C7 *)

\* C7 as stated: value(B) = value(B rotated by 180 degrees), and computing it
\* leaves the board and the tables as they were.
C7_AsStated ==
    call.op = "estimate_value" =>
        /\ call.ret = Value(net, Rot180(tile))
        /\ call.tmp = tile /\ tile = prev /\ net = old.net

\* C7 amended: value(B) and value(B rotated by 180 degrees) add up the same
\* 16 slots, the first taking them as q[1..16], the second as q[5..8],
\* q[1..4], q[13..16], q[9..12]; the two are equal when no sum is rounded
\* (weights of magnitude up to MaxWeight); computing value leaves the board,
\* the working copy and the tables as they were.
C7_RotationSlots ==
    call.op = "estimate_value" =>
        /\ call.tmp = tile /\ tile = prev /\ net = old.net
        /\ Touched(Rot180(tile))
               = SubSeq(Touched(tile), 5, 8) \o SubSeq(Touched(tile), 1, 4)
                     \o SubSeq(Touched(tile), 13, 16) \o SubSeq(Touched(tile), 9, 12)
        /\ Bounded(net) => call.ret = Value(net, Rot180(tile))

\* a value other than 0 has been computed, of a board that its rotation by
\* 180 degrees changes, on tables of small weights
C7_Witness ==
    /\ call.op = "estimate_value"
    /\ call.ret # 0
    /\ Bounded(net)
    /\ Rot180(tile) # tile

----------------------------------------------------------------------------
(* C8 *)

\* the loop of close_episode with the target of the claim:
\* traj[i+1].reward + value(traj[i+1].after)
RECURSIVE ClaimedLoop(_, _, _, _)
ClaimedLoop(n, a, h, i) ==
    IF i < 0 THEN n
    ELSE ClaimedLoop(adjust_value(n, a, h[i + 1].after,
                                  Fl(h[i + 2].reward + Value(n, h[i + 2].after)), 0),
                     a, h, i - 1)

ClaimedClose(n, a, h) ==
    IF h = <<>> \/ a = 0 THEN n
    ELSE ClaimedLoop(adjust_value(n, a, h[Len(h)].after, 0, 0), a, h, Len(h) - 2)

\* C8: close_episode leaves the tables that the terminal update and then the
\* updates for i = n-2 down to 0 with target traj[i+1].reward +
\* value(traj[i+1].after) leave.
C8_AsStated ==
    call.op = "close_episode" => net = ClaimedClose(old.net, alpha, history)

----------------------------------------------------------------------------
(* C9 *)

\* how many of the reads q read the slot of read i
Reads(q, i) == Cardinality({j \in 1 .. Len(q) : q[j] = q[i]})

\* delta of adjust_value(b, target) on the tables n
Delta(n, a, b, target) == Fl(a * Fl(target - Value(n, b)))

\* C9 as stated: on a board of pairwise distinct slots adjust_value raises
\* value(board) by 32 * delta.
C9_AsStated ==
    (call.op = "adjust_value" /\ DistinctSlots(tile)) =>
        Value(net, tile) = Value(old.net, tile) + 32 * Delta(old.net, alpha, tile, call.x)

\* C9 amended: adjust_value computes delta = alpha * (target - value(board))
\* once, before any write, and adds it to 16 table slots (4 orientations x 4
\* tables), once for every read of the slot; no other slot changes; on a
\* board of pairwise distinct slots value(board) rises by 16 * delta.
C9_SameDelta ==
    call.op = "adjust_value" =>
        \A q \in {Touched(tile)}, delta \in {Delta(old.net, alpha, tile, call.x)} :
            /\ Len(q) = 16
            /\ \A i \in 1 .. 16 :
                   Weight(net, q[i], 0) = Weight(old.net, q[i], 0) + Reads(q, i) * delta
            /\ \A p \in net \cup old.net :
                   (\A i \in 1 .. 16 : q[i] # p[1]) => p \in net \cap old.net
            /\ DistinctSlots(tile) =>
                   Value(net, tile) = Value(old.net, tile) + 16 * delta

\* zero tables, alpha = 1, target 5, a board of pairwise distinct slots: the
\* value is 80 after adjust_value
C9_Witness ==
    /\ call.op = "adjust_value"
    /\ DistinctSlots(tile)
    /\ old.net = ZeroNet /\ alpha = 1 /\ call.x = 5
    /\ Value(net, tile) = 80

----------------------------------------------------------------------------
(* C10 *)

\* C10: every table slot estimate_value and adjust_value touch on the board
\* is inside its table.
C10_InBounds == ~Outside(tile)

====
